---------------------------- MODULE Spec2Model ----------------------------
(***************************************************************************)
(* Model of src/app.py: the /generate streaming loop (iter_generation),    *)
(* its sampler (temperature + top-p 0.92 + top-5 candidates), the          *)
(* /set-delay and /reset endpoints, and the OSC sink they write to.        *)
(*                                                                         *)
(* Units.  Logits and temperatures are in tenths (20 = 2.0), scaled        *)
(* logits in hundredths, delays in hundredths of a second (50 = 0.5 s),    *)
(* candidates' probabilities in ten-thousandths (round(p, 4) * 10000),     *)
(* final_prob in millionths (round(p, 6) * 1000000).                       *)
(***************************************************************************)
EXTENDS Integers, Sequences, FiniteSets, TLC

(***************************************************************************)
(* Bounds of the model.                                                    *)
(***************************************************************************)
\* Largest vocabulary the sampler is exercised on (3 .. MaxVocab).
MaxVocab == 5

\* Records one loop may emit before the model stops following it.
MaxRecords == 7

\* Calls of the /reset endpoint the model follows.
MaxResetCalls == 1

\* Records each of two concurrent loops may emit before the model stops
\* following it.
MaxPairRecords == 5

\* MAX_TOKENS_BEFORE_RESET of src/app.py line 18 is 4000; the model runs
\* the same loop with a ceiling it can reach.
MAX_TOKENS_BEFORE_RESET == 3

(***************************************************************************)
(* Sampler: src/app.py lines 145-167, as pure operators.                   *)
(***************************************************************************)
\* torch.topk(probs, k=5)
TopK == 5

\* The logit values a vocabulary entry may take (0.1, 1.0, 2.0).
LogitValues == {1, 10, 20}

\* Temperatures a request may carry (-1.0, 0.0, 0.5, 1.0, 2.0); the request
\* model accepts any float.
Temperatures == {-10, 0, 5, 10, 20}

\* exp(x / 100) * 10000, rounded, on the scaled logits the model produces.
Exp(x) ==
    CASE x = -400 -> 183
      [] x = -200 -> 1353
      [] x = -100 -> 3679
      [] x = -10  -> 9048
      [] x = 5    -> 10513
      [] x = 10   -> 11052
      [] x = 20   -> 12214
      [] x = 50   -> 16487
      [] x = 100  -> 27183
      [] x = 200  -> 73891
      [] x = 400  -> 545982

\* next_token_logits / current_temp (temp # 0), in hundredths.
ScaledLogits(logits, temp) ==
    [i \in DOMAIN logits |-> (logits[i] * 100) \div temp]

\* Unnormalised softmax terms of the scaled logits.
Weights(sl) == [i \in DOMAIN sl |-> Exp(sl[i])]

RECURSIVE SumOver(_, _)
SumOver(f, S) ==
    IF S = {} THEN 0
    ELSE LET i == CHOOSE j \in S : TRUE IN f[i] + SumOver(f, S \ {i})

SetMax(S) == CHOOSE m \in S : \A x \in S : x <= m

\* torch.sort(next_token_logits, descending=True): every order of the
\* indices that is non-increasing in the scaled logit.  The sort is not
\* stable, so equal logits may come out in any order.
RECURSIVE SortedOrders(_, _)
SortedOrders(sl, rest) ==
    IF rest = {} THEN {<<>>}
    ELSE LET m    == SetMax({sl[i] : i \in rest})
             tops == {i \in rest : sl[i] = m}
         IN  UNION {{<<i>> \o tl : tl \in SortedOrders(sl, rest \ {i})} : i \in tops}

\* softmax(sorted_logits).cumsum() at sorted position k, times the total.
CumWeight(w, order, k) == SumOver([j \in 1..k |-> w[order[j]]], 1..k)

\* cumulative_probs > 0.92, at sorted position k.
OverMass(w, order, k) ==
    CumWeight(w, order, k) * 100 > 92 * SumOver(w, DOMAIN w)

\* The mask of line 151 applied as it is, position 0 cleared.
SortedRemoveUnshifted(w, order, k) == IF k = 1 THEN FALSE ELSE OverMass(w, order, k)

\* The shift of line 152 without line 153.
SortedRemoveFirstKept(w, order, k) ==
    IF k = 1 THEN OverMass(w, order, 1) ELSE OverMass(w, order, k - 1)

\* The mask shifted right by two positions.
SortedRemoveShiftedTwice(w, order, k) ==
    IF k <= 2 THEN FALSE ELSE OverMass(w, order, k - 2)

\* lines 151-153: the mask shifted right by one, position 0 cleared.
SortedRemove(w, order, k) == IF k = 1 THEN FALSE ELSE OverMass(w, order, k - 1)

\* line 154: scatter the sorted mask back to vocabulary order.
IndicesToRemove(w, order) ==
    {order[k] : k \in {j \in DOMAIN order : SortedRemove(w, order, j)}}

\* lines 155-157: removed logits become -inf, whose softmax term is 0.
FilteredWeights(w, removed) ==
    [i \in DOMAIN w |-> IF i \in removed THEN 0 ELSE w[i]]

\* round(p, 4) * 10000 for p = a / total.
Prob4(a, total) ==
    LET h == a * 100
    IN  (h \div total) * 100 + ((h % total) * 100 + total \div 2) \div total

Probs(fw) == [i \in DOMAIN fw |-> Prob4(fw[i], SumOver(fw, DOMAIN fw))]

\* round(p, 6) * 1000000 for p = a / total.
Prob6(a, total) ==
    LET h1 == a * 100
        h2 == (h1 % total) * 100
    IN  (h1 \div total) * 10000 + (h2 \div total) * 100
          + ((h2 % total) * 100 + total \div 2) \div total

\* lines 159, 178: round(probs[0, next_token], 6)
FinalProb(fw, tok) == Prob6(fw[tok], SumOver(fw, DOMAIN fw))

\* torch.topk(probs, k): orders of the vocabulary non-increasing in the
\* post-filter weight, cut to k entries.
TopKOrders(fw, k) ==
    {SubSeq(o, 1, k) : o \in SortedOrders(fw, DOMAIN fw)}

(***************************************************************************)
(* Tokenizer: single characters are single tokens.                         *)
(***************************************************************************)
TokenText == <<"A", "B", "C", "D", "E", "F">>

\* tokenizer.decode
Decode(tok) == TokenText[tok]

\* tokenizer(text=seed_text).input_ids
Tokenize(text) == <<CHOOSE i \in DOMAIN TokenText : TokenText[i] = text>>

(***************************************************************************)
(* The sampler's results and failures, lines 145-170.                      *)
(***************************************************************************)
\* logits / 0 is inf or nan, softmax of it is nan, and torch.multinomial
\* rejects a nan distribution (line 158).
SamplerNaN(temp) == temp = 0

\* torch.topk rejects k above the vocabulary size (line 162).
TopKRaises(logits) == Len(logits) < TopK

\* lines 149-155 for one sort order: what the top-p filter yields.
Filtered(logits, temp, order) ==
    LET w       == Weights(ScaledLogits(logits, temp))
        removed == IndicesToRemove(w, order)
    IN  [order |-> order, removed |-> removed, fw |-> FilteredWeights(w, removed)]

FilterResults(logits, temp) ==
    LET sl == ScaledLogits(logits, temp)
    IN  {Filtered(logits, temp, o) : o \in SortedOrders(sl, DOMAIN sl)}

\* line 158: torch.multinomial draws a token of positive probability.
Support(fw) == {i \in DOMAIN fw : fw[i] > 0}

\* lines 162-167: the top-k (token, prob) list of one top-k order.
Candidates(fw, top) ==
    [i \in DOMAIN top |-> [token |-> Decode(top[i]), prob |-> Probs(fw)[top[i]]]]

\* The probabilities of the top-k list; they do not depend on how ties are
\* ordered.
CandProbs(fw) ==
    LET top == CHOOSE o \in TopKOrders(fw, TopK) : TRUE
    IN  [i \in DOMAIN top |-> Probs(fw)[top[i]]]

\* What one sampling step hands to the loop: the drawn token, its
\* probability (line 159) and the candidates' probabilities.
SampleResults(logits, temp) ==
    UNION {{[next_token |-> tok,
             final_prob |-> FinalProb(f.fw, tok),
             cand_probs |-> CandProbs(f.fw)] : tok \in Support(f.fw)} :
           f \in FilterResults(logits, temp)}

(***************************************************************************)
(* Program constants and the inputs the model draws.                       *)
(***************************************************************************)
\* Generation loops (one per /generate request) the model follows.
Loops == {1, 2}

\* SEEDS, line 17 (two of its 36 characters).
SEEDS == {"A", "B"}

\* current_delay = 0.5, line 36.
InitialDelay == 50

\* The clamp bounds 0.01 and 2.0 of lines 194 and 209.
MinDelay == 1
MaxDelay == 200

\* GenerateRequest's defaults, lines 90-93.
DefaultRequest == [temp |-> 10, context |-> 64, delay |-> 5, reset |-> TRUE]

\* Requests the loop is followed on: temperature 0.0 or 1.0, a context
\* limit below, at and above 1, either reset flag, two delays.
Requests ==
    [temp : {0, 10}, context : {-1, 0, 2, 64}, delay : {5, 100}, reset : BOOLEAN]

\* Logits the Model may return inside the loop, over a vocabulary of five.
LoopLogits == {<<40, 40, 10, 1, 1>>}

\* Delays /set-delay is called with (0.0, 0.01, 0.05, 2.0, 5.0).
DelayInputs == {0, 1, 5, 200, 500}

\* Values /reset is called with.
ResetValues == {7}

Min(a, b) == IF a < b THEN a ELSE b
Max(a, b) == IF a > b THEN a ELSE b

ClampMissing(delay) == delay

\* max(0.01, min(2.0, delay)), lines 194 and 209.
Clamp(delay) == Max(MinDelay, Min(MaxDelay, delay))

NextCountSkips(count) == count + 2

\* line 173
NextCount(count) == count + 1

\* line 117
ResetDue(count) == count >= MAX_TOKENS_BEFORE_RESET

\* line 130
MaxCtx(context) == Max(1, context)

SlidingWindowOldest(ids, max_ctx) ==
    IF Len(ids) > max_ctx THEN SubSeq(ids, 1, max_ctx) ELSE ids

\* lines 133-134: input_ids[:, -max_ctx:]
SlidingWindow(ids, max_ctx) ==
    IF Len(ids) > max_ctx THEN SubSeq(ids, Len(ids) - max_ctx + 1, Len(ids)) ELSE ids

\* The records of the stream (one JSON line each).  kind stands for the
\* record's shape: the seed line, the "[AUTO-RESET: MEMORY FLUSH]" line, or
\* a sampled token's line with candidates and final_prob.
SeedRecord(text) == [kind |-> "seed", text |-> text, count |-> 0]
ResetRecord(text) == [kind |-> "reset", text |-> text, count |-> 0]
TokenRecord(text, count, smp) ==
    [kind |-> "token", text |-> text, count |-> count,
     cand_probs |-> smp.cand_probs, final_prob |-> smp.final_prob]

\* OSC messages: "/reset" value, "/latent/point" [text, x, y, z, index].
\* xyz is the projection of the hidden state of the context the Model was
\* called on; the model keeps that context in its place.
ResetMsg(value) == [addr |-> "/reset", value |-> value]
LatentMsg(text, xyz, index) ==
    [addr |-> "/latent/point", text |-> text, xyz |-> xyz, index |-> index]

NoSample == [next_token |-> 0, final_prob |-> 0, cand_probs |-> <<>>]

(***************************************************************************)
(* State.                                                                  *)
(***************************************************************************)
VARIABLES
    current_delay,  \* the global of line 36
    sent,           \* OSC messages sent, per sender (a loop or the endpoint)
    resp,           \* the last response of /set-delay or /reset
    pc,             \* where each generator stands
    req,            \* each generator's request
    open,           \* whether the client of the stream is still connected
    seed_text, input_ids, current_count,   \* locals of iter_generation
    sampled,        \* next_token, final_prob, candidates of the last step
    xyz,            \* the latent of the last Model call
    records,        \* the records each generator has yielded
    history,        \* tokens since the last seed or auto-reset (untruncated)
    model_calls,    \* Model invocations of each loop
    slept,          \* the duration of each loop's last sleep (0: none yet)
    exit,           \* how each generator ended: "closed" by the transport,
                    \* "error:<what>" caught at line 196 (Gen Error, break),
                    \* "raised:<what>" when the exception left the generator
    smp             \* the sampler run on its own

loopVars == <<pc, req, open, seed_text, input_ids, current_count, sampled, xyz,
              records, history, model_calls, slept, exit>>
vars == <<current_delay, sent, resp, loopVars, smp>>

\* Sender 0 is the /reset endpoint.
Endpoint == 0
Senders == Loops \cup {Endpoint}

NoResp == [endpoint |-> "none"]
SamplerOff == [pc |-> "off"]

\* The process after start-up, with `clients` the requests that will come.
InitWith(clients) ==
    /\ current_delay = InitialDelay
    /\ sent = [s \in Senders |-> <<>>]
    /\ resp = NoResp
    /\ pc = [l \in Loops |-> IF l \in clients THEN "idle" ELSE "absent"]
    /\ req = [l \in Loops |-> DefaultRequest]
    /\ open = [l \in Loops |-> FALSE]
    /\ seed_text = [l \in Loops |-> ""]
    /\ input_ids = [l \in Loops |-> <<>>]
    /\ current_count = [l \in Loops |-> 0]
    /\ sampled = [l \in Loops |-> NoSample]
    /\ xyz = [l \in Loops |-> <<>>]
    /\ records = [l \in Loops |-> <<>>]
    /\ history = [l \in Loops |-> <<>>]
    /\ model_calls = [l \in Loops |-> 0]
    /\ slept = [l \in Loops |-> 0]
    /\ exit = [l \in Loops |-> "none"]

Init == InitWith({1}) /\ smp = SamplerOff

(***************************************************************************)
(* /generate: generate_endpoint and iter_generation, lines 95-200.         *)
(***************************************************************************)
\* The generator runs on from a yield only while the transport still asks
\* for its next record.
Suspended == {"start", "at_seed", "at_token", "at_reset"}
Resumes(l, at) == pc[l] = at /\ open[l]

\* /generate taking its delay parameter as the shared delay.
GenerateSetsDelay(l, requests) ==
    /\ pc[l] = "idle"
    /\ \E r \in requests :
          /\ req' = [req EXCEPT ![l] = r]
          /\ current_delay' = Clamp(r.delay)
    /\ pc' = [pc EXCEPT ![l] = "start"]
    /\ open' = [open EXCEPT ![l] = TRUE]
    /\ UNCHANGED <<sent, resp, seed_text, input_ids, current_count,
                   sampled, xyz, records, history, model_calls, slept, exit, smp>>

\* lines 96-100, 200: the request is accepted as it is (no field of
\* GenerateRequest is constrained) and the generator is handed to the
\* StreamingResponse; nothing of its body has run yet.
Generate(l, requests) ==
    /\ pc[l] = "idle"
    /\ \E r \in requests : req' = [req EXCEPT ![l] = r]
    /\ pc' = [pc EXCEPT ![l] = "start"]
    /\ open' = [open EXCEPT ![l] = TRUE]
    /\ UNCHANGED <<current_delay, sent, resp, seed_text, input_ids, current_count,
                   sampled, xyz, records, history, model_calls, slept, exit, smp>>

\* lines 101-109: the optional "/reset" 1 to the sink, then the seed.
Seed(l) ==
    /\ Resumes(l, "start")
    /\ sent' = IF req[l].reset
               THEN [sent EXCEPT ![l] = Append(@, ResetMsg(1))] ELSE sent
    /\ \E s \in SEEDS :
          /\ seed_text' = [seed_text EXCEPT ![l] = s]
          /\ input_ids' = [input_ids EXCEPT ![l] = Tokenize(s)]
          /\ history' = [history EXCEPT ![l] = Tokenize(s)]
    /\ current_count' = [current_count EXCEPT ![l] = 0]
    /\ pc' = [pc EXCEPT ![l] = "yield_seed"]
    /\ UNCHANGED <<current_delay, resp, req, open, sampled, xyz, records,
                   model_calls, slept, exit, smp>>

\* line 102 raising: it is outside the try, so the exception leaves the
\* generator and the stream ends with no record.
SeedSinkFails(l) ==
    /\ Resumes(l, "start")
    /\ req[l].reset
    /\ pc' = [pc EXCEPT ![l] = "done"]
    /\ exit' = [exit EXCEPT ![l] = "raised:sink"]
    /\ UNCHANGED <<current_delay, sent, resp, req, open, seed_text, input_ids,
                   current_count, sampled, xyz, records, history, model_calls,
                   slept, smp>>

\* line 112
YieldSeed(l) ==
    /\ pc[l] = "yield_seed"
    /\ records' = [records EXCEPT ![l] = Append(@, SeedRecord(seed_text[l]))]
    /\ pc' = [pc EXCEPT ![l] = "at_seed"]
    /\ UNCHANGED <<current_delay, sent, resp, req, open, seed_text, input_ids,
                   current_count, sampled, xyz, history, model_calls, slept, exit, smp>>

\* The top of the while loop, reached from a yield or from the sleep.
AtLoopTop(l) ==
    /\ \/ pc[l] = "loop"
       \/ Resumes(l, "at_seed")
       \/ Resumes(l, "at_reset")
    /\ Len(records[l]) < MaxRecords

\* The loop ending at the ceiling instead of resetting.
AutoResetStops(l) ==
    /\ AtLoopTop(l)
    /\ ResetDue(current_count[l])
    /\ pc' = [pc EXCEPT ![l] = "done"]
    /\ UNCHANGED <<current_delay, sent, resp, req, open, seed_text, input_ids,
                   current_count, sampled, xyz, records, history, model_calls,
                   slept, exit, smp>>

\* lines 117-124: the ceiling is reached; reseed, zero the count, tell the
\* sink.
AutoReset(l) ==
    /\ AtLoopTop(l)
    /\ ResetDue(current_count[l])
    /\ \E s \in SEEDS :
          /\ seed_text' = [seed_text EXCEPT ![l] = s]
          /\ input_ids' = [input_ids EXCEPT ![l] = Tokenize(s)]
          /\ history' = [history EXCEPT ![l] = Tokenize(s)]
    /\ current_count' = [current_count EXCEPT ![l] = 0]
    /\ sent' = [sent EXCEPT ![l] = Append(@, ResetMsg(1))]
    /\ pc' = [pc EXCEPT ![l] = "yield_reset"]
    /\ UNCHANGED <<current_delay, resp, req, open, sampled, xyz, records,
                   model_calls, slept, exit, smp>>

\* line 124 raising: caught at line 196, the loop breaks.
AutoResetSinkFails(l) ==
    /\ AtLoopTop(l)
    /\ ResetDue(current_count[l])
    /\ \E s \in SEEDS :
          /\ seed_text' = [seed_text EXCEPT ![l] = s]
          /\ input_ids' = [input_ids EXCEPT ![l] = Tokenize(s)]
          /\ history' = [history EXCEPT ![l] = Tokenize(s)]
    /\ current_count' = [current_count EXCEPT ![l] = 0]
    /\ pc' = [pc EXCEPT ![l] = "done"]
    /\ exit' = [exit EXCEPT ![l] = "error:sink"]
    /\ UNCHANGED <<current_delay, sent, resp, req, open, sampled, xyz, records,
                   model_calls, slept, smp>>

\* line 125
YieldReset(l) ==
    /\ pc[l] = "yield_reset"
    /\ records' = [records EXCEPT ![l] = Append(@, ResetRecord(seed_text[l]))]
    /\ pc' = [pc EXCEPT ![l] = "at_reset"]
    /\ UNCHANGED <<current_delay, sent, resp, req, open, seed_text, input_ids,
                   current_count, sampled, xyz, history, model_calls, slept, exit, smp>>

\* lines 129-138: the window is cut to max_ctx and the Model is called.
CallModel(l) ==
    /\ AtLoopTop(l)
    /\ ~ResetDue(current_count[l])
    /\ input_ids' = [input_ids EXCEPT ![l] = SlidingWindow(@, MaxCtx(req[l].context))]
    /\ model_calls' = [model_calls EXCEPT ![l] = @ + 1]
    /\ pc' = [pc EXCEPT ![l] = "model"]
    /\ UNCHANGED <<current_delay, sent, resp, req, open, seed_text, current_count,
                   sampled, xyz, records, history, slept, exit, smp>>

\* The except clause going round the loop again instead of breaking.
ModelFailsRetries(l) ==
    /\ pc[l] = "model"
    /\ pc' = [pc EXCEPT ![l] = "loop"]
    /\ exit' = [exit EXCEPT ![l] = "error:model"]
    /\ UNCHANGED <<current_delay, sent, resp, req, open, seed_text, input_ids,
                   current_count, sampled, xyz, records, history, model_calls,
                   slept, smp>>

\* line 138 raising: caught at line 196, the loop breaks.
ModelFails(l) ==
    /\ pc[l] = "model"
    /\ pc' = [pc EXCEPT ![l] = "done"]
    /\ exit' = [exit EXCEPT ![l] = "error:model"]
    /\ UNCHANGED <<current_delay, sent, resp, req, open, seed_text, input_ids,
                   current_count, sampled, xyz, records, history, model_calls,
                   slept, smp>>

\* lines 139-173: the Model returns, the sampler draws, the count goes up.
Sample(l) ==
    /\ pc[l] = "model"
    /\ \E logits \in LoopLogits :
          /\ ~SamplerNaN(req[l].temp)
          /\ ~TopKRaises(logits)
          /\ \E r \in SampleResults(logits, req[l].temp) :
                sampled' = [sampled EXCEPT ![l] = r]
    /\ xyz' = [xyz EXCEPT ![l] = input_ids[l]]
    /\ current_count' = [current_count EXCEPT ![l] = NextCount(@)]
    /\ pc' = [pc EXCEPT ![l] = "yield_token"]
    /\ UNCHANGED <<current_delay, sent, resp, req, open, seed_text, input_ids,
                   records, history, model_calls, slept, exit, smp>>

\* line 158 or 162 raising: caught at line 196, the loop breaks.
SamplerFails(l) ==
    /\ pc[l] = "model"
    /\ \E logits \in LoopLogits : SamplerNaN(req[l].temp) \/ TopKRaises(logits)
    /\ xyz' = [xyz EXCEPT ![l] = input_ids[l]]
    /\ pc' = [pc EXCEPT ![l] = "done"]
    /\ exit' = [exit EXCEPT ![l] = "error:sampler"]
    /\ UNCHANGED <<current_delay, sent, resp, req, open, seed_text, input_ids,
                   current_count, sampled, records, history, model_calls, slept, smp>>

\* lines 174-179
YieldToken(l) ==
    /\ pc[l] = "yield_token"
    /\ records' = [records EXCEPT ![l] =
          Append(@, TokenRecord(Decode(sampled[l].next_token), current_count[l], sampled[l]))]
    /\ pc' = [pc EXCEPT ![l] = "at_token"]
    /\ UNCHANGED <<current_delay, sent, resp, req, open, seed_text, input_ids,
                   current_count, sampled, xyz, history, model_calls, slept, exit, smp>>

\* The latent point sent twice for one record.
SendLatentTwice(l) ==
    /\ Resumes(l, "at_token")
    /\ sent' = [sent EXCEPT ![l] =
          @ \o << LatentMsg(Decode(sampled[l].next_token), xyz[l], current_count[l]),
                  LatentMsg(Decode(sampled[l].next_token), xyz[l], current_count[l]) >>]
    /\ pc' = [pc EXCEPT ![l] = "append"]
    /\ UNCHANGED <<current_delay, resp, req, open, seed_text, input_ids, current_count,
                   sampled, xyz, records, history, model_calls, slept, exit, smp>>

\* lines 182-188
SendLatent(l) ==
    /\ Resumes(l, "at_token")
    /\ sent' = [sent EXCEPT ![l] =
          Append(@, LatentMsg(Decode(sampled[l].next_token), xyz[l], current_count[l]))]
    /\ pc' = [pc EXCEPT ![l] = "append"]
    /\ UNCHANGED <<current_delay, resp, req, open, seed_text, input_ids, current_count,
                   sampled, xyz, records, history, model_calls, slept, exit, smp>>

\* line 182 raising: caught at line 196, the loop breaks.
LatentSinkFails(l) ==
    /\ Resumes(l, "at_token")
    /\ pc' = [pc EXCEPT ![l] = "done"]
    /\ exit' = [exit EXCEPT ![l] = "error:sink"]
    /\ UNCHANGED <<current_delay, sent, resp, req, open, seed_text, input_ids,
                   current_count, sampled, xyz, records, history, model_calls,
                   slept, smp>>

\* One token sequence for the whole process instead of one per generator.
AppendTokenShared(l) ==
    /\ pc[l] = "append"
    /\ input_ids' = [m \in Loops |-> Append(input_ids[m], sampled[l].next_token)]
    /\ history' = [history EXCEPT ![l] = Append(@, sampled[l].next_token)]
    /\ pc' = [pc EXCEPT ![l] = "sleep"]
    /\ UNCHANGED <<current_delay, sent, resp, req, open, seed_text, current_count,
                   sampled, xyz, records, model_calls, slept, exit, smp>>

\* line 191
AppendToken(l) ==
    /\ pc[l] = "append"
    /\ input_ids' = [input_ids EXCEPT ![l] = Append(@, sampled[l].next_token)]
    /\ history' = [history EXCEPT ![l] = Append(@, sampled[l].next_token)]
    /\ pc' = [pc EXCEPT ![l] = "sleep"]
    /\ UNCHANGED <<current_delay, sent, resp, req, open, seed_text, current_count,
                   sampled, xyz, records, model_calls, slept, exit, smp>>

\* The sleep taking the delay captured in the request.
SleepForRequest(l) == Clamp(req[l].delay)

\* line 194: the sleep reads the global, not the request's delay.
SleepFor(l) == Clamp(current_delay)

Sleep(l) ==
    /\ pc[l] = "sleep"
    /\ slept' = [slept EXCEPT ![l] = SleepFor(l)]
    /\ pc' = [pc EXCEPT ![l] = "loop"]
    /\ UNCHANGED <<current_delay, sent, resp, req, open, seed_text, input_ids,
                   current_count, sampled, xyz, records, history, model_calls,
                   exit, smp>>

\* The client goes away.
Disconnect(l) ==
    /\ pc[l] \notin {"idle", "absent", "done"}
    /\ open[l]
    /\ open' = [open EXCEPT ![l] = FALSE]
    /\ UNCHANGED <<current_delay, sent, resp, pc, req, seed_text, input_ids,
                   current_count, sampled, xyz, records, history, model_calls,
                   slept, exit, smp>>

\* The generator catching the closure and going round the loop again.
CloseIgnored(l) ==
    /\ pc[l] \in Suspended
    /\ ~open[l]
    /\ pc' = [pc EXCEPT ![l] = "loop"]
    /\ exit' = [exit EXCEPT ![l] = "closed"]
    /\ UNCHANGED <<current_delay, sent, resp, req, open, seed_text, input_ids,
                   current_count, sampled, xyz, records, history, model_calls,
                   slept, smp>>

\* The transport, closed, drops the generator where it is suspended: the
\* GeneratorExit raised at the yield is not an Exception, so the except of
\* line 196 lets it through.
Close(l) ==
    /\ pc[l] \in Suspended
    /\ ~open[l]
    /\ pc' = [pc EXCEPT ![l] = "done"]
    /\ exit' = [exit EXCEPT ![l] = "closed"]
    /\ UNCHANGED <<current_delay, sent, resp, req, open, seed_text, input_ids,
                   current_count, sampled, xyz, records, history, model_calls,
                   slept, smp>>

LoopStep(l) ==
    \/ Seed(l) \/ SeedSinkFails(l) \/ YieldSeed(l)
    \/ AutoReset(l) \/ AutoResetSinkFails(l) \/ YieldReset(l)
    \/ CallModel(l) \/ ModelFails(l) \/ Sample(l) \/ SamplerFails(l)
    \/ YieldToken(l) \/ SendLatent(l) \/ LatentSinkFails(l)
    \/ AppendToken(l) \/ Sleep(l)
    \/ Disconnect(l) \/ Close(l)

Next == \E l \in Loops : Generate(l, Requests) \/ LoopStep(l)

Spec == Init /\ [][Next]_vars

(***************************************************************************)
(* /set-delay and /reset, lines 206-219.                                   *)
(***************************************************************************)
\* /set-delay adding its argument to the shared delay.
SetDelayAccumulates(delay) ==
    /\ current_delay' = Clamp(current_delay + delay)
    /\ resp' = [endpoint |-> "set-delay", arg |-> delay, status |-> "ok",
                delay |-> current_delay']
    /\ UNCHANGED <<sent, loopVars, smp>>

\* lines 207-210
SetDelay(delay) ==
    /\ current_delay' = Clamp(delay)
    /\ resp' = [endpoint |-> "set-delay", arg |-> delay, status |-> "ok",
                delay |-> current_delay']
    /\ UNCHANGED <<sent, loopVars, smp>>

\* /reset flushing the running loops as well.
ResetEndpointFlushes(value) ==
    /\ Len(sent[Endpoint]) < MaxResetCalls
    /\ sent' = [sent EXCEPT ![Endpoint] = Append(@, ResetMsg(value))]
    /\ resp' = [endpoint |-> "reset", arg |-> value, status |-> "ok", value |-> value]
    /\ current_count' = [l \in Loops |-> 0]
    /\ UNCHANGED <<current_delay, pc, req, open, seed_text, input_ids, sampled, xyz,
                   records, history, model_calls, slept, exit, smp>>

\* lines 217-219
ResetEndpoint(value) ==
    /\ Len(sent[Endpoint]) < MaxResetCalls
    /\ sent' = [sent EXCEPT ![Endpoint] = Append(@, ResetMsg(value))]
    /\ resp' = [endpoint |-> "reset", arg |-> value, status |-> "ok", value |-> value]
    /\ UNCHANGED <<current_delay, loopVars, smp>>

\* line 218 raising: the request fails, nothing else happens.
ResetEndpointSinkFails(value) ==
    /\ resp' = [endpoint |-> "reset", arg |-> value, status |-> "error"]
    /\ UNCHANGED <<current_delay, sent, loopVars, smp>>

\* One client that stays connected, with the default request, and the two
\* control endpoints called at any time.
ControlledStep(l) ==
    \/ Seed(l) \/ SeedSinkFails(l) \/ YieldSeed(l)
    \/ AutoReset(l) \/ AutoResetSinkFails(l) \/ YieldReset(l)
    \/ CallModel(l) \/ ModelFails(l) \/ Sample(l)
    \/ YieldToken(l) \/ SendLatent(l) \/ LatentSinkFails(l)
    \/ AppendToken(l) \/ Sleep(l)

NextControl ==
    \/ \E l \in Loops : Generate(l, {DefaultRequest}) \/ ControlledStep(l)
    \/ \E delay \in DelayInputs : SetDelay(delay)
    \/ \E value \in ResetValues : ResetEndpoint(value) \/ ResetEndpointSinkFails(value)

SpecControl == Init /\ [][NextControl]_vars

(***************************************************************************)
(* A request opened with any delay parameter, and /set-delay called at any *)
(* time.                                                                   *)
(***************************************************************************)
\* The default request with delay 0.05, 1.0 or 5.0.
PacingRequests == {[DefaultRequest EXCEPT !.delay = d] : d \in {5, 100, 500}}

NextPacing ==
    \/ \E l \in Loops : Generate(l, PacingRequests) \/ ControlledStep(l)
    \/ \E delay \in DelayInputs : SetDelay(delay)

SpecPacing == Init /\ [][NextPacing]_vars

(***************************************************************************)
(* Two concurrent /generate requests.  generate_endpoint hands a plain     *)
(* (synchronous) generator to StreamingResponse, which runs each next() of *)
(* it in a worker thread; the two generators share the module's model and  *)
(* take no lock (lines 44-49, 137-138), so their steps interleave freely.  *)
(***************************************************************************)
InitPair == InitWith(Loops) /\ smp = SamplerOff

\* Loop l is still followed.
Followed(l) == Len(records[l]) < MaxPairRecords

NextPair ==
    \E l \in Loops :
        \/ Followed(l) /\ Generate(l, {DefaultRequest})
        \/ Followed(l) /\ Seed(l)
        \/ Followed(l) /\ SeedSinkFails(l)
        \/ Followed(l) /\ YieldSeed(l)
        \/ Followed(l) /\ AutoReset(l)
        \/ Followed(l) /\ AutoResetSinkFails(l)
        \/ Followed(l) /\ YieldReset(l)
        \/ Followed(l) /\ CallModel(l)
        \/ Followed(l) /\ ModelFails(l)
        \/ Followed(l) /\ Sample(l)
        \/ Followed(l) /\ YieldToken(l)
        \/ Followed(l) /\ SendLatent(l)
        \/ Followed(l) /\ LatentSinkFails(l)
        \/ Followed(l) /\ AppendToken(l)
        \/ Followed(l) /\ Sleep(l)

SpecPair == InitPair /\ [][NextPair]_vars

(***************************************************************************)
(* The loop without an end: while True of line 114.  The stream is         *)
(* unbounded, so here the log the model keeps of a loop (its records, its  *)
(* sink messages, its count of Model calls) starts afresh at every         *)
(* reset-marker record; the loop's own variables are untouched.            *)
(***************************************************************************)
\* line 125, the log restarting at the reset marker.
YieldResetRollover(l) ==
    /\ pc[l] = "yield_reset"
    /\ records' = [records EXCEPT ![l] = <<ResetRecord(seed_text[l])>>]
    /\ sent' = [sent EXCEPT ![l] = <<>>]
    /\ model_calls' = [model_calls EXCEPT ![l] = 0]
    /\ pc' = [pc EXCEPT ![l] = "at_reset"]
    /\ UNCHANGED <<current_delay, resp, req, open, seed_text, input_ids,
                   current_count, sampled, xyz, history, slept, exit, smp>>

\* The steps the generator takes by itself when its sink calls succeed and
\* its client keeps reading; the return of the Model call (Sample) is the
\* Model's step.
LiveStep(l) ==
    \/ Seed(l) \/ YieldSeed(l)
    \/ AutoReset(l) \/ YieldResetRollover(l)
    \/ CallModel(l)
    \/ YieldToken(l) \/ SendLatent(l)
    \/ AppendToken(l) \/ Sleep(l)

\* What ends a loop: a failing call, or the client going away.
LiveFailure(l) ==
    \/ SeedSinkFails(l) \/ AutoResetSinkFails(l)
    \/ ModelFails(l) \/ LatentSinkFails(l)
    \/ Disconnect(l) \/ Close(l)

NextLive ==
    \E l \in Loops :
        Generate(l, {DefaultRequest}) \/ LiveStep(l) \/ Sample(l) \/ LiveFailure(l)

\* Fair scheduling: the request is made, the worker thread that runs the
\* generator keeps taking the step it can take, and no Model call hangs (it
\* returns or raises).
SpecLive ==
    /\ Init
    /\ [][NextLive]_vars
    /\ \A l \in Loops : WF_vars(Generate(l, {DefaultRequest}) \/ LiveStep(l))
    /\ \A l \in Loops : []<>(pc[l] # "model")

(***************************************************************************)
(* The sampler on its own: lines 145-167 on one logits vector.             *)
(***************************************************************************)
RECURSIVE Vectors(_)
Vectors(n) ==
    IF n = 0 THEN {<<>>}
    ELSE {Append(v, x) : v \in Vectors(n - 1), x \in LogitValues}

SamplerInputs ==
    {[pc |-> "ready", logits |-> v, temp |-> t] :
        v \in UNION {Vectors(n) : n \in 3..MaxVocab}, t \in Temperatures}

InitSampler == InitWith({}) /\ smp \in SamplerInputs

\* lines 146-157: temperature, sort, top-p mask, softmax.
SamplerFilter ==
    /\ smp.pc = "ready"
    /\ ~SamplerNaN(smp.temp)
    /\ \E f \in FilterResults(smp.logits, smp.temp) :
          smp' = [pc |-> "filtered", logits |-> smp.logits, temp |-> smp.temp,
                  order |-> f.order, removed |-> f.removed, fw |-> f.fw]
    /\ UNCHANGED <<current_delay, sent, resp, loopVars>>

\* lines 158-159: the draw.  With temperature 0 the distribution is nan and
\* torch.multinomial raises.
SamplerDraw ==
    /\ smp.pc = "filtered"
    /\ \E tok \in Support(smp.fw) :
          smp' = [pc |-> "drawn", logits |-> smp.logits, temp |-> smp.temp,
                  removed |-> smp.removed, fw |-> smp.fw,
                  next_token |-> tok, final_prob |-> FinalProb(smp.fw, tok)]
    /\ UNCHANGED <<current_delay, sent, resp, loopVars>>

SamplerDrawRaises ==
    /\ smp.pc = "ready"
    /\ SamplerNaN(smp.temp)
    /\ smp' = [pc |-> "raised", logits |-> smp.logits, temp |-> smp.temp]
    /\ UNCHANGED <<current_delay, sent, resp, loopVars>>

\* lines 162-167: the candidates.
SamplerTopK ==
    /\ smp.pc = "drawn"
    /\ ~TopKRaises(smp.logits)
    /\ \E top \in TopKOrders(smp.fw, TopK) :
          smp' = [pc |-> "done", logits |-> smp.logits, temp |-> smp.temp,
                  removed |-> smp.removed, fw |-> smp.fw,
                  next_token |-> smp.next_token, final_prob |-> smp.final_prob,
                  candidates |-> Candidates(smp.fw, top)]
    /\ UNCHANGED <<current_delay, sent, resp, loopVars>>

SamplerTopKRaises ==
    /\ smp.pc = "drawn"
    /\ TopKRaises(smp.logits)
    /\ smp' = [pc |-> "raised", logits |-> smp.logits, temp |-> smp.temp]
    /\ UNCHANGED <<current_delay, sent, resp, loopVars>>

NextSampler ==
    \/ SamplerFilter \/ SamplerDraw \/ SamplerDrawRaises
    \/ SamplerTopK \/ SamplerTopKRaises

SpecSampler == InitSampler /\ [][NextSampler]_vars

(***************************************************************************)
(* Properties.                                                             *)
(***************************************************************************)
Last(seq) == seq[Len(seq)]

\* The sampled-token records at the end of a stream, since the last seed or
\* reset-marker record.
RECURSIVE TrailingTokens(_)
TrailingTokens(recs) ==
    IF recs = <<>> \/ Last(recs).kind # "token" THEN 0
    ELSE 1 + TrailingTokens(SubSeq(recs, 1, Len(recs) - 1))

HasReset(recs) == \E i \in DOMAIN recs : recs[i].kind = "reset"

\* The part of C1 that is about what the loop never does: the Model is not
\* invoked once the ceiling is reached, a reset-marker record has count 0
\* and follows exactly MAX_TOKENS_BEFORE_RESET sampled-token records.
CeilingSafety ==
    \A l \in Loops :
        /\ pc[l] \in {"model", "yield_token"}
              => TrailingTokens(records[l]) < MAX_TOKENS_BEFORE_RESET
        /\ \A i \in DOMAIN records[l] :
              records[l][i].kind = "reset" =>
                  /\ records[l][i].count = 0
                  /\ TrailingTokens(SubSeq(records[l], 1, i - 1)) = MAX_TOKENS_BEFORE_RESET

\* C1: once MAX_TOKENS_BEFORE_RESET tokens have been sampled since the last
\* seed or reset, the next loop iteration invokes neither the Model nor the
\* Sampler and emits one reset-marker record with count 0 before the next
\* token is sampled; no reset-marker record comes earlier.  The iteration
\* after the ceiling has run when the counter is back at 0 with the stream
\* past its seed record; when the loop has ended there, its last record must
\* be the reset marker.
C1_CeilingEmitsResetMarker ==
    /\ CeilingSafety
    /\ \A l \in Loops :
          (pc[l] = "done" /\ current_count[l] = 0 /\ Len(records[l]) > 1)
              => Last(records[l]).kind = "reset"

\* C2: the first record of a stream is the seed record with count 0, emitted
\* before any Model invocation; a sampled-token record's count is one more
\* than the count of the record before it; the seed and every reset-marker
\* record have count 0; no count exceeds the ceiling.
C2_CountsFollowTheStream ==
    \A l \in Loops :
        /\ model_calls[l] > 0 => records[l] # <<>>
        /\ \A i \in DOMAIN records[l] :
              LET r == records[l][i] IN
              /\ (i = 1) <=> (r.kind = "seed")
              /\ r.kind \in {"seed", "reset"} => r.count = 0
              /\ r.kind = "token" => i > 1 /\ r.count = records[l][i - 1].count + 1
              /\ r.count <= MAX_TOKENS_BEFORE_RESET

\* A stream that ran to the ceiling, was reset and went on sampling.
C2_Witness ==
    /\ Len(records[1]) = MAX_TOKENS_BEFORE_RESET + 3
    /\ records[1][MAX_TOKENS_BEFORE_RESET + 1].count = MAX_TOKENS_BEFORE_RESET
    /\ records[1][MAX_TOKENS_BEFORE_RESET + 2].kind = "reset"
    /\ records[1][MAX_TOKENS_BEFORE_RESET + 3].count = 1

\* The limit in force: the requested context limit, and 1 when that is 0 or
\* negative.
LimitInForce(l) == IF req[l].context < 1 THEN 1 ELSE req[l].context

\* C3: at every Model invocation the context passed is non-empty, no longer
\* than the limit in force, and is the most recent tokens of the history
\* since the last seed or reset, in their order.
C3_ContextIsRecentWindow ==
    \A l \in Loops :
        pc[l] = "model" =>
            LET n == Len(input_ids[l])
                h == Len(history[l])
            IN  /\ n >= 1
                /\ n <= LimitInForce(l)
                /\ n = IF h < LimitInForce(l) THEN h ELSE LimitInForce(l)
                /\ \A i \in 1..n : input_ids[l][i] = history[l][h - n + i]

\* A Model call after an auto-reset, with a context limit of 0 or below and
\* a history longer than the window.
C3_Witness ==
    /\ pc[1] = "model"
    /\ req[1].context <= 0
    /\ HasReset(records[1])
    /\ Len(history[1]) = 2
    /\ Len(input_ids[1]) = 1
    /\ history[1][1] # history[1][2]

\* The scenario of C4: vocabulary {A, B, C}, logits [2.0, 1.0, 0.1],
\* temperature 1.0.
Scenario == smp.logits = <<20, 10, 1>> /\ smp.temp = 10

\* C4, as claimed: in the scenario the filter keeps A and B and excludes C,
\* and the draw never returns C.
C4_ScenarioExcludesC ==
    Scenario =>
        /\ smp.pc \in {"filtered", "drawn"} => smp.removed = {3}
        /\ smp.pc = "drawn" => smp.next_token # 3

\* C4, amended: in the scenario the filter excludes nothing (A and B
\* together stay below 0.92, so C is the token that crosses the mass and is
\* kept), and A, B and C are all eligible for the draw.
C4_ScenarioKeepsC ==
    Scenario =>
        /\ smp.pc \in {"filtered", "drawn"}
              => smp.removed = {} /\ Support(smp.fw) = {1, 2, 3}
        /\ smp.pc = "drawn" => smp.next_token \in {1, 2, 3}

\* The scenario's draw returning C.
C4_Witness == Scenario /\ smp.pc = "drawn" /\ smp.next_token = 3

\* C5: for every logits vector and temperature > 0 the filter keeps the
\* token at sorted position 0, which has the highest probability, also when
\* it alone exceeds the mass; so some token is always eligible.
C5_TopTokenKept ==
    (smp.pc = "filtered" /\ smp.temp > 0) =>
        LET top == smp.order[1]
            w   == Weights(ScaledLogits(smp.logits, smp.temp))
        IN  /\ \A i \in DOMAIN w : w[i] <= w[top]
            /\ top \notin smp.removed
            /\ smp.fw[top] > 0
            /\ Support(smp.fw) # {}

\* The top token alone is above 0.92 of the mass and every other token is
\* filtered out.
C5_Witness ==
    /\ smp.pc = "filtered"
    /\ smp.temp > 0
    /\ LET w == Weights(ScaledLogits(smp.logits, smp.temp))
       IN  w[smp.order[1]] * 100 > 92 * SumOver(w, DOMAIN w)
    /\ Support(smp.fw) = {smp.order[1]}

\* C6: a failing call to the sink (at the start of the request, per step, or
\* at an auto-reset) is swallowed where it is made: no loop ends because of
\* it, and it never reaches the caller.
C6_SinkFailureSwallowed ==
    \A l \in Loops : exit[l] \notin {"raised:sink", "error:sink"}

InferenceFailed(l) == exit[l] \in {"error:model", "error:sampler"}

TokenRecords(recs) == Cardinality({i \in DOMAIN recs : recs[i].kind = "token"})

\* C7: when the Model or the Sampler raises, the loop ends: that step emits
\* no record (every earlier Model call has its token record, this one has
\* none, and there is no other kind of record), and from then on the loop
\* emits no record, calls the Model no more, sends the sink nothing and
\* leaves its records as they are.
C7_InferenceErrorEndsLoop ==
    /\ [](\A l \in Loops :
            InferenceFailed(l) =>
                /\ pc[l] = "done"
                /\ TokenRecords(records[l]) = model_calls[l] - 1
                /\ \A i \in DOMAIN records[l] :
                      records[l][i].kind \in {"seed", "reset", "token"})
    /\ [][\A l \in Loops :
            /\ (pc[l] = "model" /\ pc'[l] # "yield_token")
                  => (pc'[l] \in {"model", "done"} /\ records'[l] = records[l]
                      /\ sent'[l] = sent[l])
            /\ InferenceFailed(l)
                  => (/\ pc'[l] = "done"
                      /\ records'[l] = records[l]
                      /\ model_calls'[l] = model_calls[l]
                      /\ sent'[l] = sent[l])]_vars

\* A Model failure in a stream that had already emitted records.
C7_Witness ==
    /\ exit[1] = "error:model"
    /\ TokenRecords(records[1]) = 2
    /\ model_calls[1] = 3

\* C8: a request with temperature <= 0 or context limit <= 0 is rejected
\* before streaming: no record, no sink message, no Model invocation.
C8_InvalidRequestRejected ==
    \A l \in Loops :
        (pc[l] \notin {"idle", "absent"} /\ (req[l].temp <= 0 \/ req[l].context <= 0))
            => (records[l] = <<>> /\ sent[l] = <<>> /\ model_calls[l] = 0)

\* C9: the shared delay is always within [0.01, 2.0]; a /set-delay call
\* stores min(2.0, max(0.01, delay)) and returns the value it stored; every
\* sleep of a loop lasts between 0.01 and 2.0 seconds.
C9_PacingClamped ==
    /\ current_delay >= 1 /\ current_delay <= 200
    /\ resp.endpoint = "set-delay" =>
          /\ current_delay = Min(200, Max(1, resp.arg))
          /\ resp.delay = current_delay
    /\ \A l \in Loops : slept[l] # 0 => (slept[l] >= 1 /\ slept[l] <= 200)

\* /set-delay was called with 5.0 and the loop has slept 2.0 since.
C9_Witness ==
    /\ resp.endpoint = "set-delay"
    /\ resp.arg = 500
    /\ current_delay = 200
    /\ slept[1] = 200

\* C10: a call of /reset only sends "/reset" with the given integer to the
\* sink: no loop's token sequence, count or records change, the shared delay
\* stays, and no loop sends or emits anything in that step.
C10_ResetEndpointOnlyForwards ==
    [][(resp'.endpoint = "reset" /\ (resp' # resp \/ sent'[Endpoint] # sent[Endpoint]))
         => /\ input_ids' = input_ids
            /\ history' = history
            /\ current_count' = current_count
            /\ records' = records
            /\ pc' = pc
            /\ current_delay' = current_delay
            /\ \A l \in Loops : sent'[l] = sent[l]
            /\ \/ sent'[Endpoint] = sent[Endpoint]
               \/ sent'[Endpoint] =
                     Append(sent[Endpoint], [addr |-> "/reset", value |-> resp'.arg])]_vars

\* /reset has been forwarded while the loop stands mid-run with its count
\* and history intact and no reset-marker record in its stream.
C10_Witness ==
    /\ resp.endpoint = "reset"
    /\ resp.status = "ok"
    /\ sent[Endpoint] = <<[addr |-> "/reset", value |-> 7]>>
    /\ pc[1] = "model"
    /\ current_count[1] = 2
    /\ Len(history[1]) = 3
    /\ ~HasReset(records[1])


\* C11: with two generation requests active, Model invocations are
\* serialized: no two loops are inside the Model call at the same time.
C11_ModelCallsSerialized ==
    \A l, m \in Loops : l # m => ~(pc[l] = "model" /\ pc[m] = "model")

\* Loop l takes a step (every step of a generator moves its position).
LoopMoved(l) == pc'[l] # pc[l]

\* C12: under any interleaving of two loops, a step of one loop (a sampling
\* step, an auto-reset, a termination) leaves the other loop's token
\* sequence, count and emitted records as they are.
C12_LoopsIndependent ==
    [][\A l, m \in Loops :
          (l # m /\ LoopMoved(l)) =>
              /\ input_ids'[m] = input_ids[m]
              /\ history'[m] = history[m]
              /\ current_count'[m] = current_count[m]
              /\ records'[m] = records[m]]_vars

\* Loop 1 has been through an auto-reset and loop 2 has ended on a Model
\* failure, each with the tokens and records of its own run.
C12_Witness ==
    /\ HasReset(records[1])
    /\ current_count[1] = 0
    /\ Len(input_ids[1]) = 1
    /\ exit[2] = "error:model"
    /\ current_count[2] = 2
    /\ Len(input_ids[2]) = 3
    /\ Len(records[2]) = 3

\* C13: a pacing update reaches every running loop at its next sleep: each
\* sleep lasts the shared delay as it is when the sleep starts, which is the
\* clamped argument of the last /set-delay call (2.0 for 5.0), whatever the
\* delay of the loop's own request; the shared delay changes in no other
\* step.
C13_PacingUpdateObserved ==
    [][/\ \A l \in Loops :
             (pc[l] = "sleep" /\ pc'[l] = "loop") =>
                 /\ slept'[l] = current_delay
                 /\ resp.endpoint = "set-delay"
                       => slept'[l] = Min(MaxDelay, Max(MinDelay, resp.arg))
       /\ current_delay' # current_delay =>
             /\ resp'.endpoint = "set-delay"
             /\ current_delay' = Min(MaxDelay, Max(MinDelay, resp'.arg))]_vars

\* The loop, opened with delay 0.05, has slept 2.0 after its second token:
\* /set-delay was called with 5.0 while it ran.
C13_Witness ==
    /\ req[1].delay = 5
    /\ resp.endpoint = "set-delay"
    /\ resp.arg = 500
    /\ pc[1] = "loop"
    /\ current_count[1] = 2
    /\ slept[1] = MaxDelay

\* What a /set-delay call with delay d must leave: the clamped value stored
\* and returned, everything else as it was.
PacingCallEffect(d) ==
    /\ current_delay' = Min(MaxDelay, Max(MinDelay, d))
    /\ resp'.delay = current_delay'
    /\ resp'.arg = d
    /\ sent' = sent
    /\ loopVars' = loopVars

\* C14: /set-delay is idempotent.  In every state and for every delay d a
\* call returns and stores the clamped d and changes nothing else (no sink
\* message, no loop's tokens, count or records); and in the state a call
\* with d has left, a second call with d changes nothing at all, so two
\* calls return the same result and leave what one call leaves.
C14_SetDelayIdempotent ==
    \A d \in DelayInputs :
        /\ ENABLED SetDelay(d)
        /\ ~ENABLED (SetDelay(d) /\ ~PacingCallEffect(d))
        /\ (resp.endpoint = "set-delay" /\ resp.arg = d)
              => ~ENABLED (SetDelay(d) /\ vars' # vars)

\* /set-delay has been called with 0.0 (stored as 0.01) while the loop is
\* mid-run with messages at the sink.
C14_Witness ==
    /\ resp.endpoint = "set-delay"
    /\ resp.arg = 0
    /\ resp.delay = MinDelay
    /\ current_delay = MinDelay
    /\ pc[1] = "at_token"
    /\ current_count[1] = 2
    /\ Len(sent[1]) = 2

\* C15: once the client has gone and the loop stands at a record hand-off
\* (a yield), the closure is delivered there: the loop ends, and from then
\* on it calls the Model no more, emits no record and sends the sink
\* nothing.
C15_ClosedLoopStops ==
    /\ [](\A l \in Loops : exit[l] = "closed" => pc[l] = "done")
    /\ [][\A l \in Loops :
            ((~open[l] /\ pc[l] \in Suspended) \/ exit[l] = "closed") =>
                /\ pc'[l] \in {pc[l], "done"}
                /\ model_calls'[l] = model_calls[l]
                /\ records'[l] = records[l]
                /\ sent'[l] = sent[l]]_vars

\* A stream closed by the transport at the hand-off of its second token.
C15_Witness ==
    /\ exit[1] = "closed"
    /\ ~open[1]
    /\ model_calls[1] = 2
    /\ Len(records[1]) = 3
    /\ Last(records[1]).kind = "token"

\* C16: every sampled-token record carries exactly 5 candidates, ordered by
\* non-increasing probability, also when fewer than 5 tokens survive the
\* top-p filter; and the reported probability of the sampled token
\* (final_prob) never exceeds the probability reported for the first
\* candidate.  Both are compared in millionths.
C16_CandidatesBoundFinalProb ==
    smp.pc = "done" =>
        /\ Len(smp.candidates) = TopK
        /\ \A i \in 1..(Len(smp.candidates) - 1) :
              smp.candidates[i].prob >= smp.candidates[i + 1].prob
        /\ smp.final_prob <= smp.candidates[1].prob * 100

\* The sorted positions whose cumulative probability exceeds 0.92.
PositionsOverMass(w, order) == {k \in DOMAIN order : OverMass(w, order, k)}

\* The first of them.
CrossingPosition(w, order) ==
    LET over == PositionsOverMass(w, order)
    IN  CHOOSE k \in over : \A j \in over : k <= j

\* C17: the top-p filter excludes exactly the tokens at sorted positions
\* strictly after the first position whose cumulative probability exceeds
\* 0.92: the token at that position stays eligible, every token after it
\* has post-filter probability 0 and is never drawn, and when no prefix
\* exceeds 0.92 nothing is excluded.
C17_CutAfterCrossingToken ==
    /\ smp.pc = "filtered" =>
          LET w     == Weights(ScaledLogits(smp.logits, smp.temp))
              order == smp.order
              over  == PositionsOverMass(w, order)
              cross == CrossingPosition(w, order)
              probs == Probs(smp.fw)
          IN  /\ \A k \in 1..(Len(order) - 1) : w[order[k]] >= w[order[k + 1]]
              /\ smp.removed =
                    IF over = {} THEN {}
                    ELSE {order[k] : k \in (cross + 1)..Len(order)}
              /\ over # {} => smp.fw[order[cross]] > 0
              /\ \A i \in DOMAIN smp.fw :
                    /\ i \in smp.removed => smp.fw[i] = 0 /\ probs[i] = 0
                    /\ i \notin smp.removed => smp.fw[i] = w[i]
    /\ smp.pc \in {"drawn", "done"} =>
          /\ smp.next_token \notin smp.removed
          /\ smp.fw[smp.next_token] > 0

\* The second sorted token takes the cumulative probability over 0.92: it
\* is kept and the tokens after it are excluded.
C17_Witness ==
    /\ smp.pc = "filtered"
    /\ LET w == Weights(ScaledLogits(smp.logits, smp.temp))
       IN  /\ PositionsOverMass(w, smp.order) # {}
           /\ CrossingPosition(w, smp.order) = 2
           /\ smp.fw[smp.order[2]] > 0
    /\ Cardinality(smp.removed) = Len(smp.logits) - 2
    /\ Len(smp.logits) >= 4

\* The "/reset" messages loop l has sent for auto-resets: all of its "/reset"
\* messages but the one that opens a request with reset = true.
AutoResetNotices(l) ==
    Cardinality({i \in DOMAIN sent[l] : sent[l][i].addr = "/reset"})
        - (IF req[l].reset /\ sent[l] # <<>> THEN 1 ELSE 0)

ResetRecords(recs) == Cardinality({i \in DOMAIN recs : recs[i].kind = "reset"})

\* C18: on an auto-reset the loop reseeds, zeroes the count, emits the
\* reset-marker record with count 0, then notifies the sink once, and only
\* then samples again: the sink has never been notified of an auto-reset
\* whose reset-marker record is not yet emitted, and once the loop is back
\* at sampling every reset marker has its one notice.
C18_MarkerBeforeSinkNotice ==
    \A l \in Loops :
        /\ AutoResetNotices(l) <= ResetRecords(records[l])
        /\ pc[l] \in {"model", "yield_token"}
              => AutoResetNotices(l) = ResetRecords(records[l])

IsLatent(m) == m.addr = "/latent/point"
IsToken(r) == r.kind = "token"

\* The "/latent/point" messages of loop l and its sampled-token records, in
\* the order they were sent and emitted.
LatentMsgs(l) == SelectSeq(sent[l], IsLatent)
TokenRecs(l) == SelectSeq(records[l], IsToken)

\* The order of one iteration, read off where the loop stands: the count is
\* incremented before the record is handed off, the message follows the
\* hand-off, the token is appended after the message and before the sleep;
\* and the i-th message carries the text and the count of the i-th
\* sampled-token record, with the latent of the context the Model was
\* called on, the sampled token not yet in it.
IterationOrder(l) ==
    /\ pc[l] = "yield_token" =>
          /\ current_count[l] = TrailingTokens(records[l]) + 1
          /\ Len(LatentMsgs(l)) = Len(TokenRecs(l))
          /\ Len(history[l]) = current_count[l]
    /\ pc[l] = "at_token" =>
          /\ current_count[l] = TrailingTokens(records[l])
          /\ Len(LatentMsgs(l)) = Len(TokenRecs(l)) - 1
          /\ Len(history[l]) = current_count[l]
    /\ pc[l] = "append" =>
          /\ Len(LatentMsgs(l)) = Len(TokenRecs(l))
          /\ Len(history[l]) = current_count[l]
          /\ Last(LatentMsgs(l)).xyz = input_ids[l]
    /\ pc[l] = "sleep" =>
          /\ Len(LatentMsgs(l)) = Len(TokenRecs(l))
          /\ Len(history[l]) = current_count[l] + 1
          /\ Last(LatentMsgs(l)).xyz = SubSeq(input_ids[l], 1, Len(input_ids[l]) - 1)
          /\ Last(LatentMsgs(l)).text = Decode(Last(input_ids[l]))
    /\ Len(LatentMsgs(l)) <= Len(TokenRecs(l))
    /\ \A i \in DOMAIN LatentMsgs(l) :
          /\ LatentMsgs(l)[i].text = TokenRecs(l)[i].text
          /\ LatentMsgs(l)[i].index = TokenRecs(l)[i].count
          /\ LatentMsgs(l)[i].xyz # <<>>

\* C19, as claimed: the steps of an iteration come in the order increment,
\* hand-off, latent message, append, sleep, and exactly one latent message
\* is sent per sampled-token record (all but the record in the hand-off have
\* theirs), with the record's text and count and the latent of the context
\* before the append.
C19_OneLatentPerTokenRecord ==
    \A l \in Loops :
        /\ IterationOrder(l)
        /\ pc[l] # "at_token" => Len(LatentMsgs(l)) = Len(TokenRecs(l))

\* C19, amended: the same order and the same content, with at most one
\* latent message per sampled-token record, sent after its hand-off; a
\* record has none only while it is in the hand-off or when the stream
\* ended there (the client went away, or the send failed), and it is then
\* the last record of the stream.
C19_LatentFollowsHandOff ==
    \A l \in Loops :
        /\ IterationOrder(l)
        /\ Len(LatentMsgs(l)) < Len(TokenRecs(l)) =>
              /\ Len(LatentMsgs(l)) = Len(TokenRecs(l)) - 1
              /\ Last(records[l]).kind = "token"
              /\ \/ pc[l] = "at_token"
                 \/ pc[l] = "done" /\ exit[l] \in {"closed", "error:sink"}

\* A stream closed at the hand-off of its second token: the first token has
\* its latent message, the second has none.
C19_Witness ==
    /\ pc[1] = "done"
    /\ exit[1] = "closed"
    /\ Len(TokenRecs(1)) = 2
    /\ Len(LatentMsgs(1)) = 1
    /\ LatentMsgs(1)[1].index = 1
    /\ LatentMsgs(1)[1].text = records[1][2].text

\* No call of loop l has failed and its client has not gone away.
Undisturbed(l) == exit[l] = "none" /\ (pc[l] \notin {"idle", "absent"} => open[l])

\* C20: the loop has no iteration budget.  Under fair scheduling, when no
\* Model, sampler or sink call ever fails and the client never disconnects,
\* the loop never ends, emits records again and again, and goes through an
\* auto-reset again and again, each after exactly MAX_TOKENS_BEFORE_RESET
\* sampled tokens.
C20_LoopRunsForever ==
    []Undisturbed(1) =>
        /\ [](pc[1] # "done")
        /\ []<><<records'[1] # records[1]>>_vars
        /\ []<>(pc[1] = "yield_reset")
        /\ [](pc[1] = "yield_reset"
                => TrailingTokens(records[1]) = MAX_TOKENS_BEFORE_RESET)

\* The loop at its second auto-reset, undisturbed.
C20_Witness ==
    /\ Undisturbed(1)
    /\ pc[1] = "yield_reset"
    /\ records[1][1].kind = "reset"
    /\ TrailingTokens(records[1]) = MAX_TOKENS_BEFORE_RESET

=============================================================================
